---- MODULE Spec2Model ----
(***************************************************************************)
(* Model of app.py, the keyword-driven car insurance chatbot: the two      *)
(* knowledge-base tables, the formatter (format_currency, plan_info), the  *)
(* responder (answer_question) and the chat turn of main() that appends    *)
(* to st.session_state.messages.                                           *)
(*                                                                         *)
(* Python strings are TLA+ strings, handled with Len, SubSeq and \o.       *)
(* The source holds a few non-ASCII characters, which a TLA+ string cannot *)
(* hold; each is written as an ASCII character that occurs nowhere else in *)
(* the program's texts:                                                    *)
(*     ~  U+202F NARROW NO-BREAK SPACE (between "PHP" and an amount)       *)
(*     =  U+2011 NON-BREAKING HYPHEN                                       *)
(*     ^  U+2013 EN DASH                                                   *)
(*     {  U+3010 and  }  U+3011 (the citation brackets)                    *)
(*     +  U+2020 DAGGER                                                    *)
(* None of them is a letter, a space, a "." or a "|", so lower(), title(), *)
(* split and the matching treat the stand-in as they treat the original.   *)
(***************************************************************************)
EXTENDS Integers, Sequences, FiniteSets, TLC

VARIABLES
    globals,        \* the module's globals COVERAGE_DEFINITIONS and POLICY_PLANS
    session_state,  \* st.session_state: a mapping that may hold "messages"
    exception       \* the exception that ended the last run of main(), or "None"

vars == <<globals, session_state, exception>>

\* The number of chat turns (question and reply) followed in one session.
MaxTurns == 2

(***************************************************************************)
(* Python's str operations                                                 *)
(***************************************************************************)
ascii_uppercase == "ABCDEFGHIJKLMNOPQRSTUVWXYZ"

ascii_lowercase == "abcdefghijklmnopqrstuvwxyz"

\* U+202F, the separator format_currency puts between "PHP" and the amount.
NNBSP == "~"

\* The character s[i] (1-based), as a string of length 1.
char_at(s, i) == SubSeq(s, i, i)

\* The 1-based position of character c in alphabet, or 0.
index_in(c, alphabet) ==
    IF \E i \in 1..Len(alphabet) : char_at(alphabet, i) = c
    THEN CHOOSE i \in 1..Len(alphabet) : char_at(alphabet, i) = c
    ELSE 0

\* The lower-case form of each upper-case letter.
to_lower ==
    [c \in {char_at(ascii_uppercase, i) : i \in 1..Len(ascii_uppercase)} |->
        char_at(ascii_lowercase, index_in(c, ascii_uppercase))]

\* The upper-case form of each lower-case letter.
to_upper ==
    [c \in {char_at(ascii_lowercase, i) : i \in 1..Len(ascii_lowercase)} |->
        char_at(ascii_uppercase, index_in(c, ascii_lowercase))]

isupper(c) == c \in DOMAIN to_lower

islower(c) == c \in DOMAIN to_upper

lower_char(c) == IF isupper(c) THEN to_lower[c] ELSE c

upper_char(c) == IF islower(c) THEN to_upper[c] ELSE c

\* str.lower(): every cased character lower-cased, the others kept.  The
\* cased characters of the program's texts and of Questions are ASCII letters.
RECURSIVE lower(_)
lower(s) ==
    IF s = "" THEN ""
    ELSE lower_char(char_at(s, 1)) \o lower(SubSeq(s, 2, Len(s)))

\* str.title(): a cased character is upper-cased when it follows an uncased
\* one (or starts the string) and lower-cased when it follows a cased one.
RECURSIVE title_from(_, _)
title_from(s, previous_is_cased) ==
    IF s = "" THEN ""
    ELSE LET c == char_at(s, 1)
             cased == isupper(c) \/ islower(c)
             out == IF ~cased THEN c
                    ELSE IF previous_is_cased THEN lower_char(c)
                    ELSE upper_char(c)
         IN  out \o title_from(SubSeq(s, 2, Len(s)), cased)

title(s) == title_from(s, FALSE)

\* sub in s: sub occurs in s as a substring (the empty string always does).
contains(s, sub) ==
    \E i \in 1..(Len(s) - Len(sub) + 1) : SubSeq(s, i, i + Len(sub) - 1) = sub

\* s.replace(old, new) for a one-character old.
RECURSIVE replace(_, _, _)
replace(s, old, new) ==
    IF s = "" THEN ""
    ELSE (IF char_at(s, 1) = old THEN new ELSE char_at(s, 1))
         \o replace(SubSeq(s, 2, Len(s)), old, new)

\* s.split(sep) for a one-character sep: the pieces between the separators.
RECURSIVE split(_, _)
split(s, sep) ==
    IF \E i \in 1..Len(s) : char_at(s, i) = sep
    THEN LET i == CHOOSE k \in 1..Len(s) :
                      /\ char_at(s, k) = sep
                      /\ \A j \in 1..(k - 1) : char_at(s, j) # sep
         IN  <<SubSeq(s, 1, i - 1)>> \o split(SubSeq(s, i + 1, Len(s)), sep)
    ELSE <<s>>

\* sep.join(parts)
RECURSIVE join(_, _)
join(sep, parts) ==
    IF parts = <<>> THEN ""
    ELSE IF Len(parts) = 1 THEN parts[1]
    ELSE parts[1] \o sep \o join(sep, Tail(parts))

\* re.search(pattern, string) is not None, for the patterns the program
\* builds: literals joined by "|", which match when any one literal occurs.
re_search(pattern, string) ==
    \E i \in 1..Len(split(pattern, "|")) : contains(string, split(pattern, "|")[i])

\* The least element of a non-empty set of integers: the first hit of a loop.
first(S) == CHOOSE i \in S : \A j \in S : i <= j

(***************************************************************************)
(* Python dicts keep insertion order: a dict is the sequence of its        *)
(* <<key, value>> items.                                                   *)
(***************************************************************************)
dict_has(d, key) == \E i \in 1..Len(d) : d[i][1] = key

dict_get(d, key) == d[CHOOSE i \in 1..Len(d) : d[i][1] = key][2]

\* A call's outcome: the returned value, or the exception raised.
Return(value) == [exc |-> "None", value |-> value]

Raise(exc) == [exc |-> exc, value |-> ""]

(***************************************************************************)
(* Data definitions                                                        *)
(***************************************************************************)
COVERAGE_DEFINITIONS ==
    <<
      <<"ctpl",
           "**Compulsory Third Party Liability (CTPL)** is the only form of car"
        \o " insurance required by law in the Philippines.  It pays for injuries or"
        \o " death you cause to someone outside your vehicle ^ for example a"
        \o " pedestrian, passenger in another car or a non=family member.  The LTO"
        \o " requires CTPL before a vehicle can be registered and a standard"
        \o " policy typically covers up to PHP~100,000{388055955070738+L96-L110}."
      >>,
      <<"own damage",
           "**Own Damage** coverage pays to repair or replace your vehicle if it"
        \o " is damaged or stolen.  It is optional but strongly recommended"
        \o " because CTPL only covers third parties and will not pay for your own"
        \o " car{88305912757905+L115-L136}.  Policies often have a deductible you must"
        \o " pay before the insurer covers the remaining cost."
      >>,
      <<"acts of god",
           "**Acts of God (Acts of Nature)** coverage protects you from"
        \o " losses caused by natural calamities such as typhoons, floods or"
        \o " earthquakes{88305912757905+L138-L150}.  Some policies cover volcanic eruptions and"
        \o " landslides as well{388055955070738+L188-L204}.  Acts of God coverage is usually"
        \o " an optional add=on and costs vary by vehicle value."
      >>,
      <<"personal accident",
           "**Personal Accident** coverage pays for medical expenses, disability"
        \o " benefits and accidental death benefits for the driver and passengers"
        \o " of the insured vehicle{88305912757905+L153-L161}.  Some policies specify a"
        \o " fixed benefit per passenger while others provide a lump sum."
      >>,
      <<"malicious mischief",
           "**Acts of Malicious Mischief** coverage pays to repair your car if it"
        \o " is intentionally damaged by someone else.  Examples include"
        \o " vandalism, keying the paint or damage caused by riots or civil unrest"
        \o "{88305912757905+L163-L172}."
      >>,
      <<"roadside assistance",
           "**Roadside Assistance** covers services such as towing, fuel delivery and"
        \o " jump=starting your vehicle when it breaks down.  Some policies also"
        \o " include emergency medical evacuation{88305912757905+L174-L181}."
      >>,
      <<"loss of use",
           "**Loss of Use** coverage reimburses you for the cost of renting a"
        \o " replacement vehicle while your insured car is being repaired due to a"
        \o " covered accident or theft{88305912757905+L184-L191}.  Policies specify daily"
        \o " and maximum limits."
      >>
    >>

POLICY_PLANS ==
    <<
      <<"Basic",
        [ premium |-> 1800,
          description |->
               "Our entry=level plan provides legally required CTPL protection and"
            \o " offers affordable peace of mind for budget=conscious drivers.",
          coverage |-> <<"ctpl">>,
          limits |->
            <<
              <<"ctpl", 100000>>
            >> ]
      >>,
      <<"Standard",
        [ premium |-> 7500,
          description |->
               "A balanced plan that adds own damage and Acts of God coverage on top"
            \o " of CTPL.  Ideal for drivers who want broader protection without"
            \o " paying for all the bells and whistles.",
          coverage |-> <<"ctpl", "own damage", "acts of god">>,
          limits |->
            <<
              <<"ctpl", 100000>>,
              <<"own damage", 400000>>,
              <<"acts of god", 300000>>
            >> ]
      >>,
      <<"Premium",
        [ premium |-> 14000,
          description |->
               "Our most comprehensive plan which includes all available coverage"
            \o " types.  Perfect for new or high=value vehicles and for owners who"
            \o " want maximum peace of mind.",
          coverage |-> <<"ctpl", "own damage", "acts of god", "personal accident", "malicious mischief", "roadside assistance", "loss of use">>,
          limits |->
            <<
              <<"ctpl", 100000>>,
              <<"own damage", 800000>>,
              <<"acts of god", 600000>>,
              <<"personal accident", 200000>>,
              <<"malicious mischief", 300000>>,
              <<"roadside assistance", 0>>,
              <<"loss of use", 2500>>
            >> ]
      >>
    >>

(***************************************************************************)
(* Helper functions                                                        *)
(***************************************************************************)
\* The decimal digits of a natural number.
RECURSIVE digits(_)
digits(n) ==
    IF n < 10 THEN char_at("0123456789", n + 1)
    ELSE digits(n \div 10) \o char_at("0123456789", (n % 10) + 1)

\* format(amount, ",.0f") of a non-negative int: its digits, with a "," before
\* every group of three.
RECURSIVE grouped(_)
grouped(n) ==
    IF n < 1000 THEN digits(n)
    ELSE grouped(n \div 1000) \o ","
         \o digits((n % 1000) \div 100) \o digits((n % 100) \div 10) \o digits(n % 10)

\* format_currency with the "," of the format specification left out.
format_currency_ungrouped(amount) == "PHP" \o NNBSP \o digits(amount)

format_currency(amount) == "PHP" \o NNBSP \o grouped(amount)

\* display_name with str.capitalize() in place of str.title().
display_name_capitalize(c) ==
    IF c # "ctpl"
    THEN upper_char(char_at(c, 1)) \o lower(SubSeq(c, 2, Len(c)))
    ELSE "CTPL"

\* The display name of a coverage key in plan_info.
display_name(c) == IF c # "ctpl" THEN title(c) ELSE "CTPL"

\* One clause of the "Coverage limits:" line.
limit_line(cov, limit) ==
    IF cov = "roadside assistance" THEN "Roadside assistance: service included"
    ELSE IF cov = "loss of use"
    THEN "Loss of use: reimbursed up to " \o format_currency(limit) \o " per day"
    ELSE display_name(cov) \o ": " \o format_currency(limit) \o " limit"

\* plan_info looking the plan up under its lower-cased name.
plan_info_lower_key(plan_name) ==
    IF ~dict_has(globals.POLICY_PLANS, lower(plan_name)) THEN Raise("KeyError")
    ELSE Return("**" \o plan_name \o " Plan**")

plan_info(plan_name) ==
    IF ~dict_has(globals.POLICY_PLANS, plan_name) THEN Raise("KeyError")
    ELSE
    LET plan == dict_get(globals.POLICY_PLANS, plan_name)
        coverage_list ==
            [i \in 1..Len(plan.coverage) |-> display_name(plan.coverage[i])]
        limit_lines ==
            [i \in 1..Len(plan.limits) |->
                limit_line(plan.limits[i][1], plan.limits[i][2])]
        lines ==
            << "**" \o plan_name \o " Plan**",
               plan.description,
               "",
               "Included coverage: " \o join(", ", coverage_list) \o ".",
               "Annual premium: " \o format_currency(plan.premium) \o ".",
               "Coverage limits: " \o join("; ", limit_lines) \o "." >>
    IN  Return(join("\n", lines))

\* The words of a price/cost query, in the order the code tests them.
PRICE_WORDS == <<"price", "cost", "premium", "rates">>

\* The words of a general coverage query.
COVERAGE_WORDS == <<"coverage", "covered", "benefits">>

\* any(word in q for word in words)
any_word_in(words, q) == \E i \in 1..Len(words) : contains(q, words[i])

\* The indices of the coverage definitions whose pattern is found in q.
coverage_matches(q) ==
    { i \in 1..Len(globals.COVERAGE_DEFINITIONS) :
        re_search(replace(globals.COVERAGE_DEFINITIONS[i][1], " ", "|"), q) }

\* plan_matches without the .lower() of the plan name.
plan_matches_case_sensitive(q) ==
    { i \in 1..Len(globals.POLICY_PLANS) :
        contains(q, globals.POLICY_PLANS[i][1]) }

\* The indices of the plans whose lower-cased name occurs in q.
plan_matches(q) ==
    { i \in 1..Len(globals.POLICY_PLANS) :
        contains(q, lower(globals.POLICY_PLANS[i][1])) }

pricing_reply ==
    LET plans == globals.POLICY_PLANS
        lines ==
            <<"Here are the annual premiums for our available plans:">>
            \o [i \in 1..Len(plans) |->
                   "- **" \o plans[i][1] \o " Plan**: "
                   \o format_currency(plans[i][2].premium)]
            \o <<"\nAsk about a specific plan to see what it covers.">>
    IN  join("\n", lines)

overview_reply ==
    LET defs == globals.COVERAGE_DEFINITIONS
        lines ==
            <<"We offer several types of coverage.  Here's a quick overview:">>
            \o [i \in 1..Len(defs) |-> "- " \o split(defs[i][2], ".")[1] \o "."]
            \o << "\nYou can ask about any of these coverage types for more information or"
                  \o " inquire about a specific plan." >>
    IN  join("\n", lines)

fallback_reply ==
       "I'm sorry, I don't have an answer to that yet.  You can ask me about"
    \o " car insurance coverage, premiums or one of our plans (Basic, Standard"
    \o " or Premium)."

\* answer_question with the price/cost check moved before the plan names.
answer_question_pricing_first(question) ==
    LET q == lower(question)
        covs == coverage_matches(q)
        plans == plan_matches(q)
    IN  IF covs # {} THEN Return(globals.COVERAGE_DEFINITIONS[first(covs)][2])
        ELSE IF any_word_in(PRICE_WORDS, q) THEN Return(pricing_reply)
        ELSE IF plans # {} THEN plan_info(globals.POLICY_PLANS[first(plans)][1])
        ELSE IF any_word_in(COVERAGE_WORDS, q) THEN Return(overview_reply)
        ELSE Return(fallback_reply)

answer_question(question) ==
    LET q == lower(question)
        covs == coverage_matches(q)
        plans == plan_matches(q)
    IN  IF covs # {} THEN Return(globals.COVERAGE_DEFINITIONS[first(covs)][2])
        ELSE IF plans # {} THEN plan_info(globals.POLICY_PLANS[first(plans)][1])
        ELSE IF any_word_in(PRICE_WORDS, q) THEN Return(pricing_reply)
        ELSE IF any_word_in(COVERAGE_WORDS, q) THEN Return(overview_reply)
        ELSE Return(fallback_reply)

(***************************************************************************)
(* Streamlit UI: one run of main() per interaction                         *)
(***************************************************************************)
\* The questions typed into the chat box.
Questions ==
    { "",
      "does the Basic plan cover acts of god",
      "tell me about the Standard plan",
      "what are your rates",
      "what coverage do you offer",
      "what's the weather today",
      "CTPL", "Own Damage", "acts of god", "Personal accident",
      "malicious mischief", "ROADSIDE ASSISTANCE", "loss of use",
      "what is the price of the Basic plan",
      "Basic", "PREMIUM", "premium rates", "price", "cost",
      "benefits", "is theft covered", "covered cost",
      "compare Premium and Basic", "Standard price",
      "how much is the premium for own damage" }

\* What st.chat_input returns: None (written <<>>) when nothing was submitted,
\* else the submitted string (written <<string>>).
ChatInputs == {<<>>} \cup { <<question>> : question \in Questions }

\* Python's truth value of user_input: None and "" are false.
truthy(user_input) == user_input # <<>> /\ user_input[1] # ""

messages == IF "messages" \in DOMAIN session_state
            THEN session_state.messages
            ELSE <<>>

\* main with the history initialised on every run, not only when absent.
main_reset_history(user_input) ==
    /\ truthy(user_input) => Len(messages) < 2 * MaxTurns
    /\ globals' = globals
    /\ exception' = "None"
    /\ IF truthy(user_input)
       THEN session_state' =
                [messages |->
                    << [role |-> "user", content |-> user_input[1]],
                       [role |-> "assistant",
                        content |-> answer_question(user_input[1]).value] >>]
       ELSE session_state' = [messages |-> <<>>]

main(user_input) ==
    LET history == messages
    IN  /\ truthy(user_input) => Len(history) < 2 * MaxTurns
        /\ globals' = globals
        /\ IF truthy(user_input)
           THEN LET with_user ==
                        Append(history, [role |-> "user", content |-> user_input[1]])
                    reply == answer_question(user_input[1])
                IN  IF reply.exc # "None"
                    THEN /\ session_state' = [messages |-> with_user]
                         /\ exception' = reply.exc
                    ELSE /\ session_state' =
                               [messages |->
                                   Append(with_user,
                                          [role |-> "assistant",
                                           content |-> reply.value])]
                         /\ exception' = "None"
           ELSE /\ session_state' = [messages |-> history]
                /\ exception' = "None"

Init ==
    /\ globals = [COVERAGE_DEFINITIONS |-> COVERAGE_DEFINITIONS,
                  POLICY_PLANS |-> POLICY_PLANS]
    /\ session_state = <<>>
    /\ exception = "None"

Next == \E user_input \in ChatInputs : main(user_input)

Spec == Init /\ [][Next]_vars

(***************************************************************************)
(* A deployment whose tables break the knowledge-base invariant: the Basic *)
(* plan lists "theft", which COVERAGE_DEFINITIONS does not define.  The    *)
(* module defines its tables with two dict literals and runs no check on   *)
(* them, so the program starts with whatever the literals hold.            *)
(***************************************************************************)
POLICY_PLANS_UNDEFINED_KEY ==
    [POLICY_PLANS EXCEPT
        ![1][2].coverage = <<"ctpl", "theft">>,
        ![1][2].limits = << <<"ctpl", 100000>>, <<"theft", 50000>> >>]

InitKB ==
    /\ globals \in
         { [COVERAGE_DEFINITIONS |-> COVERAGE_DEFINITIONS,
            POLICY_PLANS |-> POLICY_PLANS],
           [COVERAGE_DEFINITIONS |-> COVERAGE_DEFINITIONS,
            POLICY_PLANS |-> POLICY_PLANS_UNDEFINED_KEY] }
    /\ session_state = <<>>
    /\ exception = "None"

SpecKB == InitKB /\ [][Next]_vars

(***************************************************************************)
(* Vocabulary of the properties.  A turn is a reply in the history with    *)
(* the question it answers; the categories of a question and of a reply    *)
(* are stated here from the texts, not from answer_question.               *)
(***************************************************************************)
Replies ==
    { i \in 2..Len(messages) :
        messages[i].role = "assistant" /\ messages[i - 1].role = "user" }

question_of(i) == messages[i - 1].content

reply_of(i) == messages[i].content

starts_with(s, prefix) ==
    Len(prefix) <= Len(s) /\ SubSeq(s, 1, Len(prefix)) = prefix

CoverageKeys ==
    << "ctpl", "own damage", "acts of god", "personal accident",
       "malicious mischief", "roadside assistance", "loss of use" >>

CoverageFragments ==
    { "ctpl", "own", "damage", "acts", "of", "god", "personal", "accident",
      "malicious", "mischief", "roadside", "assistance", "loss", "use" }

DisplayNames ==
    << "CTPL", "Own Damage", "Acts Of God", "Personal Accident",
       "Malicious Mischief", "Roadside Assistance", "Loss Of Use" >>

PlanNames == <<"Basic", "Standard", "Premium">>

PlanNamesLower == <<"basic", "standard", "premium">>

HasCoverageFragment(lq) == \E f \in CoverageFragments : contains(lq, f)

HasPlanName(lq) == \E p \in 1..3 : contains(lq, PlanNamesLower[p])

HasPricingWord(lq) ==
    \E w \in {"price", "cost", "premium", "rates"} : contains(lq, w)

HasOverviewWord(lq) ==
    \E w \in {"coverage", "covered", "benefits"} : contains(lq, w)

IsCoverageDefinition(a) == \E k \in 1..7 : a = COVERAGE_DEFINITIONS[k][2]

IsPlanDescription(a) ==
    \E p \in 1..3 : starts_with(a, "**" \o PlanNames[p] \o " Plan**\n")

IsPricingSummary(a) ==
    starts_with(a, "Here are the annual premiums for our available plans:\n- ")

IsCoverageOverview(a) ==
    starts_with(a, "We offer several types of coverage.  Here's a quick overview:\n- ")

ApologyText ==
       "I'm sorry, I don't have an answer to that yet.  You can ask me about"
    \o " car insurance coverage, premiums or one of our plans (Basic, Standard"
    \o " or Premium)."

CategoryOf(a) ==
    IF IsCoverageDefinition(a) THEN "coverage-definition"
    ELSE IF IsPlanDescription(a) THEN "plan-name"
    ELSE IF IsPricingSummary(a) THEN "pricing-intent"
    ELSE IF IsCoverageOverview(a) THEN "coverage-overview"
    ELSE IF a = ApologyText THEN "fallback"
    ELSE "none"

FirstCategory(lq) ==
    IF HasCoverageFragment(lq) THEN "coverage-definition"
    ELSE IF HasPlanName(lq) THEN "plan-name"
    ELSE IF HasPricingWord(lq) THEN "pricing-intent"
    ELSE IF HasOverviewWord(lq) THEN "coverage-overview"
    ELSE "fallback"

(***************************************************************************)
(* C1                                                                      *)
(***************************************************************************)
\* C1, as amended: every reply comes from the first category, in the order
\* coverage-definition > plan-name > pricing-intent > coverage-overview >
\* fallback, whose match condition holds on the lower-cased question; a
\* question with a plan name and a coverage-definition fragment gets a
\* coverage definition, and a question with a plan name and a pricing word
\* and no coverage-definition fragment gets the plan description.
C1_Precedence ==
    \A i \in Replies :
        LET lq == lower(question_of(i))
            a == reply_of(i)
        IN  /\ CategoryOf(a) = FirstCategory(lq)
            /\ (HasPlanName(lq) /\ HasCoverageFragment(lq))
                   => (IsCoverageDefinition(a) /\ ~IsPlanDescription(a))
            /\ (HasPlanName(lq) /\ HasPricingWord(lq) /\ ~HasCoverageFragment(lq))
                   => (IsPlanDescription(a) /\ ~IsPricingSummary(a))

\* C1 as stated: the same, but every question with a plan name and a pricing
\* word gets the plan description.
C1_Original ==
    \A i \in Replies :
        LET lq == lower(question_of(i))
            a == reply_of(i)
        IN  /\ CategoryOf(a) = FirstCategory(lq)
            /\ (HasPlanName(lq) /\ HasCoverageFragment(lq))
                   => (IsCoverageDefinition(a) /\ ~IsPlanDescription(a))
            /\ (HasPlanName(lq) /\ HasPricingWord(lq))
                   => (IsPlanDescription(a) /\ ~IsPricingSummary(a))

\* Both ambiguous questions of C1 were asked and answered.
C1_Witness ==
    \E i, j \in Replies :
        /\ question_of(i) = "does the Basic plan cover acts of god"
        /\ reply_of(i) = COVERAGE_DEFINITIONS[3][2]
        /\ question_of(j) = "Standard price"
        /\ starts_with(reply_of(j), "**Standard Plan**\n")

(***************************************************************************)
(* C2                                                                      *)
(***************************************************************************)
\* The text of a definition up to and including its first ".".
FirstSentence(text) ==
    SubSeq(text, 1, CHOOSE k \in 1..Len(text) :
                        /\ char_at(text, k) = "."
                        /\ \A j \in 1..(k - 1) : char_at(text, j) # ".")

\* The coverage overview: a header, one bullet per coverage definition in
\* table order holding its first sentence, then the hint.
IsOverviewText(a) ==
    LET lines == split(a, "\n")
    IN  /\ Len(lines) = 10
        /\ lines[1] = "We offer several types of coverage.  Here's a quick overview:"
        /\ \A k \in 1..7 :
               lines[k + 1] = "- " \o FirstSentence(COVERAGE_DEFINITIONS[k][2])
        /\ lines[9] = ""
        /\ starts_with(lines[10], "You can ask about any of these coverage types")

\* C2: a general coverage question (one with "coverage", "covered" or
\* "benefits" that names no coverage type, no plan and no pricing word), such
\* as "what coverage do you offer", is answered with the coverage overview.
C2_GeneralCoverageQuestion ==
    \A i \in Replies :
        LET lq == lower(question_of(i))
        IN  ( /\ HasOverviewWord(lq)
              /\ ~HasPlanName(lq)
              /\ ~HasPricingWord(lq)
              /\ \A k \in 1..7 : ~contains(lq, CoverageKeys[k]) )
            => IsOverviewText(reply_of(i))

(***************************************************************************)
(* C3                                                                      *)
(***************************************************************************)
\* The premiums as plan_info prints them, U+202F after "PHP".
FormattedPremiums ==
    << "PHP" \o NNBSP \o "1,800", "PHP" \o NNBSP \o "7,500",
       "PHP" \o NNBSP \o "14,000" >>

\* The premiums as the claims write them, with a plain space after "PHP".
PlainSpacePremiums == <<"PHP 1,800", "PHP 7,500", "PHP 14,000">>

\* Text a is plan p's description: its header, its premium written as
\* premium_text, and the display name of exactly the coverage types in the
\* plan's coverage list.
DescribesPlan(a, p, premium_text) ==
    /\ starts_with(a, "**" \o PlanNames[p] \o " Plan**\n")
    /\ contains(a, "Annual premium: " \o premium_text \o ".")
    /\ \A k \in 1..7 :
           contains(a, DisplayNames[k])
           <=> (\E c \in 1..Len(POLICY_PLANS[p][2].coverage) :
                    POLICY_PLANS[p][2].coverage[c] = CoverageKeys[k])

DisplayTitle(cov) == IF cov = "ctpl" THEN "CTPL" ELSE title(cov)

\* The limit clause C4 describes for a coverage key and its limit.
TitledClause(cov, limit) ==
    DisplayTitle(cov)
    \o (IF cov = "roadside assistance" THEN ": service included"
        ELSE IF cov = "loss of use"
        THEN ": reimbursed up to " \o format_currency(limit) \o " per day"
        ELSE ": " \o format_currency(limit) \o " limit")

LastLine(a) == split(a, "\n")[Len(split(a, "\n"))]

\* C4: the "Coverage limits:" line of a plan description holds one clause per
\* entry of the plan's limits table, in table order, joined with "; " and
\* ended with ".", each starting with the key's display title and having the
\* shape of its kind.
C4_LimitClauses ==
    \A i \in Replies :
        \A p \in 1..3 :
            starts_with(reply_of(i), "**" \o PlanNames[p] \o " Plan**\n")
            => LastLine(reply_of(i)) =
                   "Coverage limits: "
                   \o join("; ",
                           [k \in 1..Len(POLICY_PLANS[p][2].limits) |->
                               TitledClause(POLICY_PLANS[p][2].limits[k][1],
                                            POLICY_PLANS[p][2].limits[k][2])])
                   \o "."

(***************************************************************************)
(* C5                                                                      *)
(***************************************************************************)
\* The pricing summary the code returns, U+202F after each "PHP".
PricingSummaryText ==
       "Here are the annual premiums for our available plans:\n"
    \o "- **Basic Plan**: PHP" \o NNBSP \o "1,800\n"
    \o "- **Standard Plan**: PHP" \o NNBSP \o "7,500\n"
    \o "- **Premium Plan**: PHP" \o NNBSP \o "14,000\n"
    \o "\nAsk about a specific plan to see what it covers."

\* The pricing summary as the claim writes it, a plain space after each "PHP".
PlainSpacePricingText ==
       "Here are the annual premiums for our available plans:\n"
    \o "- **Basic Plan**: PHP 1,800\n"
    \o "- **Standard Plan**: PHP 7,500\n"
    \o "- **Premium Plan**: PHP 14,000\n"
    \o "\nAsk about a specific plan to see what it covers."

IsPricingQuestion(lq) ==
    ~HasCoverageFragment(lq) /\ ~HasPlanName(lq) /\ HasPricingWord(lq)

C6_Total ==
    /\ exception = "None"
    /\ \A i \in 1..Len(messages) :
           /\ messages[i].content # ""
           /\ messages[i].role = "user"
                  => (i < Len(messages) /\ messages[i + 1].role = "assistant")
    /\ \A i \in Replies :
           FirstCategory(lower(question_of(i))) = "fallback"
           => /\ reply_of(i) = ApologyText
              /\ \A p \in 1..3 : contains(reply_of(i), PlanNames[p])
    /\ answer_question("") = [exc |-> "None", value |-> ApologyText]

\* A question that matches nothing was asked and got the apology.
C6_Witness ==
    \E i \in Replies :
        /\ question_of(i) = "what's the weather today"
        /\ reply_of(i) = ApologyText

(***************************************************************************)
(* C7                                                                      *)
(***************************************************************************)
\* The knowledge-base invariant: every key of a plan's coverage list and of
\* its limits is a key of the coverage-definition table, and every key of
\* its limits is in its coverage list.
KnowledgeBaseValid ==
    \A p \in 1..Len(globals.POLICY_PLANS) :
        LET plan == globals.POLICY_PLANS[p][2]
        IN  /\ \A c \in 1..Len(plan.coverage) :
                   dict_has(globals.COVERAGE_DEFINITIONS, plan.coverage[c])
            /\ \A l \in 1..Len(plan.limits) :
                   /\ dict_has(globals.COVERAGE_DEFINITIONS, plan.limits[l][1])
                   /\ \E c \in 1..Len(plan.coverage) :
                          plan.coverage[c] = plan.limits[l][1]

\* C7: when a plan references an undefined coverage key the program fails at
\* initialization, so no question is ever answered from such tables.
C7_FailFast ==
    ~KnowledgeBaseValid => Replies = {}

(***************************************************************************)
(* C8                                                                      *)
(***************************************************************************)
\* C8: a run of main() keeps the history as a prefix and appends nothing or
\* exactly two entries, the user's non-empty input and then the assistant's
\* answer_question of it; the history has even length with roles user,
\* assistant alternating; the two tables are unchanged.
C8_AppendOnly ==
    [][ LET old == messages
            new == messages'
            n == Len(old)
        IN  /\ Len(new) \in {n, n + 2}
            /\ SubSeq(new, 1, n) = old
            /\ Len(new) = n + 2
                   => /\ new[n + 1].role = "user"
                      /\ new[n + 1].content # ""
                      /\ new[n + 2] =
                             [role |-> "assistant",
                              content |-> answer_question(new[n + 1].content).value]
            /\ Len(new) % 2 = 0
            /\ \A k \in 1..Len(new) :
                   new[k].role = IF k % 2 = 1 THEN "user" ELSE "assistant"
            /\ globals' = globals
      ]_vars

\* Two turns were appended to the history of one session.
C8_Witness ==
    /\ Len(messages) = 4
    /\ messages[1].role = "user" /\ messages[2].role = "assistant"
    /\ messages[3].role = "user" /\ messages[4].role = "assistant"
    /\ messages[3].content # messages[1].content

(***************************************************************************)
(* C9                                                                      *)
(***************************************************************************)
\* C9: a question that is a coverage key's full phrase, in any letter case,
\* is answered with that key's own definition.
C9_OwnDefinition ==
    \A i \in Replies :
        \A k \in 1..7 :
            lower(question_of(i)) = CoverageKeys[k]
            => reply_of(i) = COVERAGE_DEFINITIONS[k][2]

====
